---- MODULE Spec2Model ----
(***************************************************************************)
(* Model of quic/s2n-quic-tls/src/session.rs: Session::new and the         *)
(* tls::Session::poll ("advance") operation that drives the s2n-tls        *)
(* connection one negotiate step at a time under a scoped callback.        *)
(*                                                                         *)
(* poll never suspends in the middle of a call and the caller serialises   *)
(* calls, so one poll call is one action.  The action is the composition   *)
(* of the statements of the function body, each an operator on the frame   *)
(* of the call (the locals of poll plus the Session fields it touches).    *)
(* The frame records the calls made, in order, so that ordering inside a   *)
(* call stays observable.                                                  *)
(***************************************************************************)
EXTENDS Integers, Sequences, FiniteSets, TLC

VARIABLES
    session,            \* "none" | "live" | "error": outcome of Session::new
    endpoint,           \* Session.endpoint
    config_resolver,    \* Session.config_resolver is Some(..)
    handshake_complete, \* Session.handshake_complete
    send_buffer,        \* Session.send_buffer (number of bytes held)
    attached,           \* the connection handle holds the callback's handlers
    setup,              \* setup steps Session::new ran, with the engine's answers
    polls,              \* number of poll calls made so far
    last,               \* record of the most recent poll call
    notify_total,       \* invocations of context.on_handshake_complete so far
    notify_ok_total,    \* ... of which returned Ok
    completed_total,    \* poll calls that returned Poll::Ready(Ok(()))
    neg_ok_seen,        \* some negotiate call has reported success
    failed_total,       \* poll calls that returned Poll::Ready(Err(..))
    sessions,           \* Sessions dropped so far
    prior,              \* the last poll call of the Session dropped last
    engine_left         \* negotiate steps the engine still needs (cooperative engine only)

vars == <<session, endpoint, config_resolver, handshake_complete, send_buffer,
          attached, setup, polls, last, notify_total, notify_ok_total,
          completed_total, neg_ok_seen, failed_total, sessions, prior,
          engine_left>>

----------------------------------------------------------------------------
(* Bounds *)

MaxPolls == 3
MaxSend == 2
\* when two Sessions are compared: poll calls per Session, Sessions dropped
MaxPairPolls == 2
MaxDrops == 1

(* Representative TLS alert codes (u8): lowest, handshake_failure, highest *)
AlertCodes == {0, 40, 255}

----------------------------------------------------------------------------
(* Option<T> as a sequence of length at most one *)

None == <<>>
Some(x) == <<x>>
UnwrapOr(opt, d) == IF opt = None THEN d ELSE opt[1]

(* Errors *)

NoError == [kind |-> "none", code |-> 0]
\* CryptoError::new(code)
CryptoErrorNew(code) == [code |-> code]
\* Option::map(CryptoError::new)
MapCryptoErrorNew(opt) == IF opt = None THEN None ELSE Some(CryptoErrorNew(opt[1]))
\* CryptoError::HANDSHAKE_FAILURE: the TLS handshake_failure alert
HANDSHAKE_FAILURE == CryptoErrorNew(40)
\* impl From<CryptoError> for transport::Error
TransportFromCrypto(e) == [kind |-> "crypto", code |-> e.code]
\* the error callback.unset reports
DetachError == [kind |-> "detach", code |-> 0]
\* the error context.on_handshake_complete reports
ContextError == [kind |-> "context", code |-> 0]

(* Error translation, session.rs lines 127-131 *)
Translate_AlwaysGeneric(alert) == TransportFromCrypto(HANDSHAKE_FAILURE)

Translate(alert) ==
    TransportFromCrypto(UnwrapOr(MapCryptoErrorNew(alert), HANDSHAKE_FAILURE))

(* Poll<Result<(), E>> values *)
NegOk == [tag |-> "ok", alert |-> None]
NegErr(alert) == [tag |-> "err", alert |-> alert]
NegPending == [tag |-> "pending", alert |-> None]
NegNone == [tag |-> "none", alert |-> None]

\* what connection.negotiate() can report
NegotiateOutcomes ==
    {NegOk, NegPending} \cup {NegErr(a) : a \in {None} \cup {Some(c) : c \in AlertCodes}}

RetNone == [tag |-> "none", err |-> NoError]
RetPending == [tag |-> "pending", err |-> NoError]
RetCompleted == [tag |-> "completed", err |-> NoError]
RetFailed(e) == [tag |-> "failed", err |-> e]

----------------------------------------------------------------------------
(* Session::new *)

SetupSteps == <<"set_config", "enable_quic", "set_quic_transport_parameters", "set_blinding">>

\* the steps run with `?`: each is tried in order until one is rejected
RECURSIVE RunSetup(_, _)
RunSetup(accepts, i) ==
    IF i > Len(SetupSteps) THEN <<>>
    ELSE IF accepts[i]
         THEN <<[step |-> SetupSteps[i], ok |-> TRUE]>> \o RunSetup(accepts, i + 1)
         ELSE <<[step |-> SetupSteps[i], ok |-> FALSE]>>

SetupOk_IgnoreLast(log) ==
    /\ Len(log) = Len(SetupSteps)
    /\ \A i \in 1..(Len(log) - 1) : log[i].ok

\* Ok(Self {..}) is reached iff no `?` returned early
SetupOk(log) ==
    /\ Len(log) = Len(SetupSteps)
    /\ \A i \in 1..Len(log) : log[i].ok

NoCall ==
    [neg |-> NegNone, det |-> "none", hc_before |-> FALSE, attached_before |-> FALSE,
     prev_det |-> "none", calls |-> <<>>, ret |-> RetNone,
     notify_invoked |-> 0, notify_ok |-> 0, pushed |-> 0]

NoPrior ==
    [valid |-> FALSE, endpoint |-> "Server", resolver |-> FALSE,
     hc_before |-> FALSE, hc_after |-> FALSE, neg |-> NegNone, det |-> "none",
     ret |-> RetNone, calls |-> <<>>, notify_invoked |-> 0, notify_ok |-> 0]

Init ==
    /\ failed_total = 0
    /\ sessions = 0
    /\ prior = NoPrior
    /\ engine_left = 0
    /\ session = "none"
    /\ endpoint = "Server"
    /\ config_resolver = FALSE
    /\ handshake_complete = FALSE
    /\ send_buffer = 0
    /\ attached = FALSE
    /\ setup = <<>>
    /\ polls = 0
    /\ last = NoCall
    /\ notify_total = 0
    /\ notify_ok_total = 0
    /\ completed_total = 0
    /\ neg_ok_seen = FALSE

New ==
    /\ session = "none"
    /\ \E ep \in {"Server", "Client"}, resolver \in BOOLEAN,
          accepts \in [1..Len(SetupSteps) -> BOOLEAN] :
         LET log == RunSetup(accepts, 1) IN
         /\ setup' = log
         /\ endpoint' = ep
         /\ config_resolver' = resolver
         /\ session' = IF SetupOk(log) THEN "live" ELSE "error"
         /\ handshake_complete' = FALSE
         /\ send_buffer' = 0
    /\ UNCHANGED <<attached, polls, last, notify_total, notify_ok_total,
                   completed_total, neg_ok_seen, failed_total, sessions, prior,
                   engine_left>>

----------------------------------------------------------------------------
(* Session::poll, statement by statement, on the frame of one call *)

Enter ==
    [handshake_complete |-> handshake_complete, send_buffer |-> send_buffer,
     attached |-> attached, calls |-> <<>>, result |-> NegNone, det |-> "none",
     ret |-> RetNone, returned |-> FALSE, notify_invoked |-> 0, notify_ok |-> 0]

\* callback.set(&mut self.connection)
CallbackSet(f) ==
    [f EXCEPT !.attached = TRUE, !.calls = Append(@, "set")]

\* let result = self.connection.negotiate().map_ok(|_| ());
\* the engine may hand outbound handshake bytes to the callback meanwhile
Negotiate(f, neg, bytes) ==
    [f EXCEPT !.result = neg, !.send_buffer = @ + bytes,
              !.calls = Append(@, "negotiate")]

\* callback.unset(&mut self.connection): det is what it reports; when it
\* reports an error the handlers may or may not have been unregistered
CallbackUnset(f, det, cleared) ==
    [f EXCEPT !.det = det,
              !.attached = IF det = "ok" THEN FALSE ELSE ~cleared,
              !.calls = Append(@, "unset")]

Question_Ignore(f) == f

\* the `?` applied to callback.unset's result
Question(f) ==
    IF f.det = "err"
    THEN [f EXCEPT !.ret = RetFailed(DetachError), !.returned = TRUE]
    ELSE f

\* `self.handshake_complete = true` left out
Notify_ForgetFlag(f, notif) ==
    IF notif = "ok"
    THEN [f EXCEPT !.calls = Append(@, "on_handshake_complete"),
                   !.notify_invoked = @ + 1, !.notify_ok = @ + 1]
    ELSE [f EXCEPT !.calls = Append(@, "on_handshake_complete"),
                   !.notify_invoked = @ + 1,
                   !.ret = RetFailed(ContextError), !.returned = TRUE]

\* the flag set before the notification's result is looked at
Notify_FlagFirst(f, notif) ==
    IF notif = "ok"
    THEN [f EXCEPT !.calls = Append(@, "on_handshake_complete"),
                   !.notify_invoked = @ + 1, !.notify_ok = @ + 1,
                   !.handshake_complete = TRUE]
    ELSE [f EXCEPT !.calls = Append(@, "on_handshake_complete"),
                   !.notify_invoked = @ + 1,
                   !.handshake_complete = TRUE,
                   !.ret = RetFailed(ContextError), !.returned = TRUE]

\* context.on_handshake_complete()?; self.handshake_complete = true;
Notify(f, notif) ==
    IF notif = "ok"
    THEN [f EXCEPT !.calls = Append(@, "on_handshake_complete"),
                   !.notify_invoked = @ + 1, !.notify_ok = @ + 1,
                   !.handshake_complete = TRUE]
    ELSE [f EXCEPT !.calls = Append(@, "on_handshake_complete"),
                   !.notify_invoked = @ + 1,
                   !.ret = RetFailed(ContextError), !.returned = TRUE]

\* once the handshake is complete every engine failure becomes the generic error
Match_GenericOnceComplete(f, notif) ==
    IF f.returned THEN f
    ELSE CASE f.result.tag = "ok" ->
                LET g == IF ~f.handshake_complete THEN Notify(f, notif) ELSE f
                IN  IF g.returned THEN g ELSE [g EXCEPT !.ret = RetCompleted]
           [] f.result.tag = "err" ->
                [f EXCEPT !.ret = RetFailed(IF f.handshake_complete
                                             THEN TransportFromCrypto(HANDSHAKE_FAILURE)
                                             ELSE Translate(f.result.alert))]
           [] OTHER -> [f EXCEPT !.ret = RetPending]

\* the flag cleared again when the engine reports a failure
Match_ResetOnErr(f, notif) ==
    IF f.returned THEN f
    ELSE CASE f.result.tag = "ok" ->
                LET g == IF ~f.handshake_complete THEN Notify(f, notif) ELSE f
                IN  IF g.returned THEN g ELSE [g EXCEPT !.ret = RetCompleted]
           [] f.result.tag = "err" ->
                [f EXCEPT !.ret = RetFailed(Translate(f.result.alert)),
                          !.handshake_complete = FALSE]
           [] OTHER -> [f EXCEPT !.ret = RetPending]

\* `Poll::Ready(Err(_)) => Poll::Pending`: the engine's failure is dropped
Match_SwallowErr(f, notif) ==
    IF f.returned THEN f
    ELSE CASE f.result.tag = "ok" ->
                LET g == IF ~f.handshake_complete THEN Notify(f, notif) ELSE f
                IN  IF g.returned THEN g ELSE [g EXCEPT !.ret = RetCompleted]
           [] OTHER -> [f EXCEPT !.ret = RetPending]

\* the `if !self.handshake_complete` guard left out
Match_NoGuard(f, notif) ==
    IF f.returned THEN f
    ELSE CASE f.result.tag = "ok" ->
                LET g == Notify(f, notif)
                IN  IF g.returned THEN g ELSE [g EXCEPT !.ret = RetCompleted]
           [] f.result.tag = "err" ->
                [f EXCEPT !.ret = RetFailed(Translate(f.result.alert))]
           [] OTHER -> [f EXCEPT !.ret = RetPending]

\* Poll::Pending handled by the success arm
Match_PendingCompletes(f, notif) ==
    IF f.returned THEN f
    ELSE CASE f.result.tag \in {"ok", "pending"} ->
                LET g == IF ~f.handshake_complete THEN Notify(f, notif) ELSE f
                IN  IF g.returned THEN g ELSE [g EXCEPT !.ret = RetCompleted]
           [] OTHER ->
                [f EXCEPT !.ret = RetFailed(Translate(f.result.alert))]

\* match result { .. }
Match(f, notif) ==
    IF f.returned THEN f
    ELSE CASE f.result.tag = "ok" ->
                LET g == IF ~f.handshake_complete THEN Notify(f, notif) ELSE f
                IN  IF g.returned THEN g ELSE [g EXCEPT !.ret = RetCompleted]
           [] f.result.tag = "err" ->
                [f EXCEPT !.ret = RetFailed(Translate(f.result.alert))]
           [] OTHER -> [f EXCEPT !.ret = RetPending]

\* `negotiate()?`: an engine failure returns before the callback is unset
PollBody_EarlyReturn(f, neg, bytes, det, cleared, notif) ==
    IF neg.tag = "err"
    THEN Match(Negotiate(CallbackSet(f), neg, bytes), notif)
    ELSE Match(Question(CallbackUnset(Negotiate(CallbackSet(f), neg, bytes), det, cleared)), notif)

\* the commented-out branch of lines 88-107 wired in: a Session that has a
\* resolver waits for it instead of negotiating
PollBody_ConsultResolver(f, neg, bytes, det, cleared, notif) ==
    IF config_resolver
    THEN [f EXCEPT !.ret = RetPending, !.returned = TRUE]
    ELSE Match(Question(CallbackUnset(Negotiate(CallbackSet(f), neg, bytes), det, cleared)), notif)

\* a Session that latches its first failure and fails every later call
PollBody_Terminal(f, neg, bytes, det, cleared, notif) ==
    LET g == Question(CallbackUnset(Negotiate(CallbackSet(f), neg, bytes), det, cleared))
    IN  IF failed_total > 0 /\ ~g.returned
        THEN [g EXCEPT !.ret = RetFailed(TransportFromCrypto(HANDSHAKE_FAILURE)),
                       !.returned = TRUE]
        ELSE Match(g, notif)

\* the result matched, and the context notified, before the callback is unset
PollBody_MatchFirst(f, neg, bytes, det, cleared, notif) ==
    LET g == Match(Negotiate(CallbackSet(f), neg, bytes), notif)
        h == CallbackUnset(g, det, cleared)
    IN  IF h.returned THEN h ELSE Question(h)

PollBody(f, neg, bytes, det, cleared, notif) ==
    Match(Question(CallbackUnset(Negotiate(CallbackSet(f), neg, bytes), det, cleared)), notif)

\* one poll call with the given answers of the engine and of the context
PollCall(neg, bytes, det, cleared, notif) ==
    /\ session = "live"
    /\ send_buffer + bytes <= MaxSend
    /\ LET f == PollBody(Enter, neg, bytes, det, cleared, notif) IN
       /\ handshake_complete' = f.handshake_complete
       /\ send_buffer' = f.send_buffer
       /\ attached' = f.attached
       /\ last' = [neg |-> f.result, det |-> f.det,
                   hc_before |-> handshake_complete,
                   attached_before |-> attached,
                   prev_det |-> last.det,
                   calls |-> f.calls, ret |-> f.ret,
                   notify_invoked |-> f.notify_invoked,
                   notify_ok |-> f.notify_ok, pushed |-> bytes]
       /\ notify_total' = notify_total + f.notify_invoked
       /\ notify_ok_total' = notify_ok_total + f.notify_ok
       /\ completed_total' = completed_total + (IF f.ret.tag = "completed" THEN 1 ELSE 0)
       /\ failed_total' = failed_total + (IF f.ret.tag = "failed" THEN 1 ELSE 0)
       /\ neg_ok_seen' = (neg_ok_seen \/ f.result.tag = "ok")
    /\ polls' = polls + 1
    /\ UNCHANGED <<session, endpoint, config_resolver, setup, sessions, prior>>

Poll ==
    /\ polls < MaxPolls
    /\ \E neg \in NegotiateOutcomes, bytes \in 0..1, det \in {"ok", "err"},
          cleared \in BOOLEAN, notif \in {"ok", "err"} :
         PollCall(neg, bytes, det, cleared, notif)
    /\ UNCHANGED engine_left

Next == New \/ Poll

Spec == Init /\ [][Next]_vars

----------------------------------------------------------------------------
(* Two Sessions, one after the other.  The owner drops a Session between    *)
(* poll calls, which releases the connection handle and the buffers; the    *)
(* last poll call of the dropped Session is kept for comparison with the    *)
(* calls of the next one.                                                   *)

Drop ==
    /\ session \in {"live", "error"}
    /\ sessions < MaxDrops
    /\ sessions' = sessions + 1
    /\ prior' = IF polls > 0
                THEN [valid |-> TRUE, endpoint |-> endpoint,
                      resolver |-> config_resolver,
                      hc_before |-> last.hc_before,
                      hc_after |-> handshake_complete,
                      neg |-> last.neg, det |-> last.det, ret |-> last.ret,
                      calls |-> last.calls,
                      notify_invoked |-> last.notify_invoked,
                      notify_ok |-> last.notify_ok]
                ELSE prior
    /\ session' = "none"
    /\ endpoint' = "Server"
    /\ config_resolver' = FALSE
    /\ handshake_complete' = FALSE
    /\ send_buffer' = 0
    /\ attached' = FALSE
    /\ setup' = <<>>
    /\ polls' = 0
    /\ last' = NoCall
    /\ notify_total' = 0
    /\ notify_ok_total' = 0
    /\ completed_total' = 0
    /\ failed_total' = 0
    /\ neg_ok_seen' = FALSE
    /\ UNCHANGED engine_left

\* the answers of negotiate, unset and the context vary; the engine hands over
\* no bytes and a failed unset leaves the handlers in place
PollPair ==
    /\ polls < MaxPairPolls
    /\ \E neg \in NegotiateOutcomes, det \in {"ok", "err"}, notif \in {"ok", "err"} :
         PollCall(neg, 0, det, FALSE, notif)
    /\ UNCHANGED engine_left

NextPair == New \/ PollPair \/ Drop

SpecPair == Init /\ [][NextPair]_vars

----------------------------------------------------------------------------
(* A cooperative engine and context: negotiate is pending for engine_left   *)
(* more calls and then succeeds, unset and the notification succeed, and    *)
(* the caller keeps polling.                                                *)

InitLive ==
    /\ engine_left \in 0..(MaxPolls - 1)
    /\ failed_total = 0
    /\ sessions = 0
    /\ prior = NoPrior
    /\ session = "none"
    /\ endpoint = "Server"
    /\ config_resolver = FALSE
    /\ handshake_complete = FALSE
    /\ send_buffer = 0
    /\ attached = FALSE
    /\ setup = <<>>
    /\ polls = 0
    /\ last = NoCall
    /\ notify_total = 0
    /\ notify_ok_total = 0
    /\ completed_total = 0
    /\ neg_ok_seen = FALSE

PollCooperative ==
    /\ polls < MaxPolls
    /\ \E bytes \in 0..1 :
         PollCall(IF engine_left > 0 THEN NegPending ELSE NegOk, bytes, "ok", TRUE, "ok")
    /\ engine_left' = IF engine_left > 0 THEN engine_left - 1 ELSE 0

NextLive == New \/ PollCooperative

SpecLive == InitLive /\ [][NextLive]_vars /\ WF_vars(PollCooperative)

----------------------------------------------------------------------------
(* Properties *)

\* C1 (as stated): over any sequence of poll calls in which negotiate has
\* reported success, on_handshake_complete has been invoked exactly once.
C1_Original == (polls > 0 /\ neg_ok_seen) => notify_total = 1

\* C1 (amended): on_handshake_complete returns Ok at most once over the whole
\* sequence; once some poll call has returned completed it has returned Ok
\* exactly once; and a call entered with handshake_complete set never
\* invokes it, however many further successful calls follow.
C1_Amended ==
    /\ notify_ok_total <= 1
    /\ (completed_total > 0 => notify_ok_total = 1)
    /\ (polls > 0 /\ last.hc_before) => last.notify_invoked = 0

C1_Witness == completed_total >= 2 /\ notify_ok_total = 1 /\ last.hc_before

\* C2: in every poll call the calls on the connection handle are exactly
\* set, negotiate, unset, in that order, whatever negotiate and unset report;
\* anything the call does after them goes to the context, not the handle.
C2_AttachNegotiateDetach ==
    polls > 0 =>
        /\ Len(last.calls) >= 3
        /\ SubSeq(last.calls, 1, 3) = <<"set", "negotiate", "unset">>
        /\ \A i \in 4..Len(last.calls) : last.calls[i] = "on_handshake_complete"

C2_Witness ==
    /\ polls > 0
    /\ last.neg.tag = "err"
    /\ last.ret.tag = "failed"
    /\ last.calls = <<"set", "negotiate", "unset">>

\* C3 (as stated): on_handshake_complete is invoked in a poll call iff
\* handshake_complete goes from false to true in that call.
C3_Original ==
    polls > 0 =>
        ((last.notify_invoked > 0) <=> (~last.hc_before /\ handshake_complete))

\* C3 (amended): handshake_complete goes from false to true in a poll call
\* iff on_handshake_complete was invoked in that call and returned Ok.
C3_Amended ==
    polls > 0 =>
        ((last.notify_ok > 0) <=> (~last.hc_before /\ handshake_complete))

C3_Witness ==
    polls > 0 /\ last.notify_ok = 1 /\ ~last.hc_before /\ handshake_complete

\* C4: a poll call whose callback.unset fails returns a failure carrying the
\* detach error, whatever negotiate reported; never completed.
C4_DetachFailureIsHardError ==
    (polls > 0 /\ last.det = "err") =>
        /\ last.ret.tag = "failed"
        /\ last.ret.err.kind = "detach"

C4_Witness ==
    polls > 0 /\ last.neg = NegOk /\ last.det = "err" /\ last.ret.tag = "failed"

\* C5 (as stated): whenever negotiate fails, the poll call returns the
\* translation of that negotiate failure, also when unset fails.
C5_Original ==
    (polls > 0 /\ last.neg.tag = "err") =>
        last.ret = RetFailed(Translate(last.neg.alert))

\* C5 (amended): whenever negotiate fails, the poll call returns a failure,
\* never completed or pending: the translation of the negotiate failure when
\* unset succeeds, the detach error when unset fails too.
C5_Amended ==
    (polls > 0 /\ last.neg.tag = "err") =>
        /\ last.ret.tag = "failed"
        /\ last.det = "ok" => last.ret.err = Translate(last.neg.alert)
        /\ last.det = "err" => last.ret.err = DetachError

C5_Witness ==
    /\ polls > 0
    /\ last.neg = NegErr(Some(40))
    /\ last.det = "err"
    /\ last.ret = RetFailed(DetachError)

\* C6: between poll calls no callback is attached to the connection handle.
C6_NoDanglingAdapter == ~attached

\* C7: callback.set is never called while a callback is still attached, nor
\* after a callback.unset that did not succeed.
C7_AttachDetachAlternate ==
    polls > 0 => (~last.attached_before /\ last.prev_det # "err")

\* C8: when negotiate fails and unset succeeds, the poll call returns
\* failed(e) with e the crypto error carrying the engine's alert code, or the
\* fixed handshake-failure error when the engine gave no alert code.
C8_ErrorCarriesAlert ==
    (polls > 0 /\ last.neg.tag = "err" /\ last.det = "ok") =>
        /\ last.ret.tag = "failed"
        /\ last.ret.err.kind = "crypto"
        /\ last.neg.alert # None => last.ret.err.code = last.neg.alert[1]
        /\ last.neg.alert = None => last.ret.err = TransportFromCrypto(HANDSHAKE_FAILURE)

C8_Witness ==
    /\ polls > 0
    /\ last.neg = NegErr(Some(255))
    /\ last.det = "ok"
    /\ last.ret.err.code = 255

\* C9: Session::new yields a Session iff all four setup steps ran and were
\* accepted; the first rejected step ends construction with an error and no
\* Session to poll; a new Session has handshake_complete false and an empty
\* send buffer.
C9_Construction ==
    session # "none" =>
        /\ (session = "live") <=>
              (Len(setup) = 4 /\ \A i \in 1..Len(setup) : setup[i].ok)
        /\ session = "error" =>
              /\ Len(setup) \in 1..4
              /\ ~setup[Len(setup)].ok
              /\ \A i \in 1..(Len(setup) - 1) : setup[i].ok
              /\ polls = 0
              /\ ~attached
        /\ (session = "live" /\ polls = 0) =>
              (handshake_complete = FALSE /\ send_buffer = 0)

C9_Witness ==
    session = "error" /\ Len(setup) = 4 /\ setup[3].ok /\ ~setup[4].ok

\* C10: a poll call whose negotiate is pending and whose unset succeeds
\* returns pending, invokes no notification and leaves handshake_complete as
\* it was; a call whose negotiate fails also invokes no notification and
\* leaves handshake_complete as it was.
C10_PendingAndFailureFrame ==
    polls > 0 =>
        /\ (last.neg.tag = "pending" /\ last.det = "ok") =>
              /\ last.ret = RetPending
              /\ last.notify_invoked = 0
              /\ handshake_complete = last.hc_before
        /\ last.neg.tag = "err" =>
              /\ last.notify_invoked = 0
              /\ handshake_complete = last.hc_before

C10_Witness ==
    /\ polls > 0
    /\ last.neg.tag = "pending"
    /\ last.det = "ok"
    /\ last.ret = RetPending
    /\ ~handshake_complete

\* some poll call before the most recent one returned a failure
FailedBefore == failed_total > (IF last.ret.tag = "failed" THEN 1 ELSE 0)

\* C11 (as stated): once a poll call has returned a failure, every later poll
\* call on that Session returns a failure and invokes no notification.
C11_Original ==
    (polls > 0 /\ FailedBefore) =>
        (last.ret.tag = "failed" /\ last.notify_invoked = 0)

\* C11 (amended): the Session does not latch a failure.  A poll call that
\* returns a failure leaves handshake_complete as it was, and every poll
\* call, also one after a failure, returns what its own negotiate, unset and
\* notification outcomes determine: completed iff negotiate succeeded, unset
\* succeeded and the flag was already set or the notification returned Ok;
\* pending iff negotiate was pending and unset succeeded; a failure otherwise.
C11_Amended ==
    polls > 0 =>
        /\ last.ret.tag \in {"completed", "pending", "failed"}
        /\ last.ret.tag = "failed" => handshake_complete = last.hc_before
        /\ (last.ret.tag = "completed") <=>
              /\ last.neg.tag = "ok"
              /\ last.det = "ok"
              /\ (last.hc_before \/ last.notify_ok = 1)
        /\ (last.ret.tag = "pending") <=>
              (last.neg.tag = "pending" /\ last.det = "ok")

C11_Witness ==
    /\ polls > 1
    /\ FailedBefore
    /\ last.ret.tag = "completed"
    /\ last.notify_invoked = 1

\* C13: handshake_complete is false in a new Session and, once true, stays
\* true through every later step; so it is set at most once.
C13_FlagMonotonic ==
    [][/\ handshake_complete => handshake_complete'
       /\ (session = "none" /\ session' = "live") => ~handshake_complete']_vars

C13_Witness ==
    /\ polls > 1
    /\ last.hc_before
    /\ handshake_complete
    /\ last.ret.tag = "failed"

\* C15: when negotiate and unset succeed and the notification returns an
\* error, the poll call returns that error and handshake_complete stays
\* false; every call that sees negotiate and unset succeed with the flag
\* still false invokes the notification, so it is invoked again later.
C15_NotificationErrorRetried ==
    polls > 0 =>
        /\ (last.notify_invoked = 1 /\ last.notify_ok = 0) =>
              /\ last.neg.tag = "ok"
              /\ last.ret = RetFailed(ContextError)
              /\ ~handshake_complete
        /\ (last.neg.tag = "ok" /\ last.det = "ok" /\ ~last.hc_before) =>
              last.notify_invoked = 1

C15_Witness ==
    /\ polls > 1
    /\ notify_total = 2
    /\ notify_ok_total = 1
    /\ last.notify_ok = 1
    /\ handshake_complete

\* C16: within a poll call on_handshake_complete is called only after unset,
\* only when unset succeeded, with no set in between, and the connection
\* handle holds no callback after such a call.
C16_NotifyAfterDetach ==
    polls > 0 =>
        \A i \in 1..Len(last.calls) :
            last.calls[i] = "on_handshake_complete" =>
                /\ last.det = "ok"
                /\ ~attached
                /\ \E j \in 1..(i - 1) :
                      /\ last.calls[j] = "unset"
                      /\ \A k \in (j + 1)..(i - 1) : last.calls[k] # "set"

C16_Witness ==
    /\ polls > 0
    /\ last.calls = <<"set", "negotiate", "unset", "on_handshake_complete">>
    /\ last.det = "ok"

\* C12: two poll calls, on Sessions of any role, flag and history, whose
\* negotiate fails with the same alert and whose unset succeeds return the
\* same error; with no alert the error is the fixed handshake-failure error.
C12_TranslationDeterministic ==
    polls > 0 =>
        /\ ( /\ prior.valid
             /\ prior.neg.tag = "err"
             /\ prior.det = "ok"
             /\ last.neg = prior.neg
             /\ last.det = "ok" ) => last.ret = prior.ret
        /\ (last.neg = NegErr(None) /\ last.det = "ok") =>
              last.ret = RetFailed(TransportFromCrypto(HANDSHAKE_FAILURE))

C12_Witness ==
    /\ polls > 0
    /\ prior.valid
    /\ prior.endpoint # endpoint
    /\ prior.hc_before
    /\ ~last.hc_before
    /\ prior.neg = NegErr(Some(0))
    /\ prior.det = "ok"
    /\ last.neg = prior.neg
    /\ last.det = "ok"
    /\ last.ret = prior.ret

\* the same flag at entry and the same answers from negotiate and unset
SameInputs ==
    /\ prior.valid
    /\ prior.hc_before = last.hc_before
    /\ prior.neg = last.neg
    /\ prior.det = last.det

\* C14: a poll call never changes config_resolver, returns pending only when
\* negotiate was pending, and a Session with a resolver and one without, given
\* the same flag and the same answers, make the same calls and return the
\* same result.
C14_ResolverInert ==
    /\ [][polls' > polls => config_resolver' = config_resolver]_vars
    /\ [](polls > 0 =>
            /\ last.ret.tag = "pending" => last.neg.tag = "pending"
            /\ (SameInputs /\ prior.resolver # config_resolver) =>
                  /\ last.calls = prior.calls
                  /\ last.notify_invoked = prior.notify_invoked
                  /\ last.notify_ok = prior.notify_ok =>
                        /\ last.ret = prior.ret
                        /\ handshake_complete = prior.hc_after)

C14_Witness ==
    /\ polls > 0
    /\ SameInputs
    /\ prior.resolver
    /\ ~config_resolver
    /\ last.ret.tag = "completed"
    /\ last.ret = prior.ret
    /\ last.calls = prior.calls

\* number of negotiate calls in a sequence of calls
NegotiateCalls(calls) == Cardinality({i \in 1..Len(calls) : calls[i] = "negotiate"})

\* C17: with a caller that keeps polling, an engine whose negotiate succeeds
\* after finitely many pending answers and an unset and a notification that
\* succeed, a live Session eventually has handshake_complete set by a poll
\* call that returns completed; and every poll call makes exactly one
\* negotiate call.
C17_EventuallyComplete ==
    /\ (session = "live") ~> (handshake_complete /\ last.ret = RetCompleted)
    /\ [](polls > 0 => NegotiateCalls(last.calls) = 1)

C17_Witness ==
    /\ polls > 1
    /\ handshake_complete
    /\ last.ret = RetCompleted
    /\ last.notify_ok = 1
    /\ NegotiateCalls(last.calls) = 1

====
